---- MODULE Spec2Model ----
(***************************************************************************)
(* RTM report pipeline: the Confluence publisher (confluence_publish.py),  *)
(* the exit paths of the report generator (generate_rtm_report.py) and the *)
(* normalizer of fetch_rtm_data.py.                                        *)
(*                                                                         *)
(* The publisher is a sequential script.  One step of the model is one     *)
(* iteration of the retry loop of safe_request (one HTTP attempt), with    *)
(* the processing of the response by the caller when the attempt returns.  *)
(* The remote store is the environment: it answers each attempt with a     *)
(* status, and it may have applied a write whose response never arrived.   *)
(***************************************************************************)
EXTENDS Integers, Sequences, FiniteSets, TLC

\* ------------------------------------------------------------------ bounds
MaxRuns == 2
MaxExt == 1
MaxFaults == 3

\* ------------------------------------------------------- program constants
MaxAttempts == 3
ExitConfig == 1
ExitFiles == 2
ExitAttachment == 6
ExitFatal == 99
ExitOk == 0
GenExitMissing == 1
GenExitBadJson == 2
GenExitEmpty == 3
GenExitRender == 1

\* RTM_OUTPUT_JSON when unset, and DATA_FILE of generate_rtm_report.py
ExecFile == "data/rtm_execution.json"
DataFile == "data/rtm_data.json"

HtmlName == "rtm_report.html"
PdfName == "rtm_report.pdf"

\* Response statuses; a RequestException (timeout, connection reset) has none.
EXC == "exception"
Conflict == "409"

Stages == <<"lookup", "write", "listHtml", "upHtml", "listPdf", "upPdf">>
StageSet == {Stages[i] : i \in DOMAIN Stages}

\* CONFLUENCE_TITLE
Title == "RTM Test Execution Report"

NoPage == [id |-> 0, version |-> 0, title |-> ""]
NoPut == [id |-> 0, version |-> 0, title |-> ""]
NoHttp == [attempts |-> 0, calls |-> 0]
NoExit == [stage |-> "none", cause |-> "none", code |-> 0 - 1, at |-> "none"]
NoCall == [attempts |-> 0, sleeps |-> 0, outs |-> <<>>, returned |-> FALSE, status |-> "none"]

\* ------------------------------------------------- JSON values (fetch side)
Null == [t |-> "null"]
Str(x) == [t |-> "str", s |-> x]
Num(x) == [t |-> "int", n |-> x]
List(xs) == [t |-> "list", items |-> xs]
Obj(fn) == [t |-> "obj", f |-> fn]
NotRun == [ran |-> FALSE]
\* answer: how the upstream will answer the request of main()
NoFetch == [attempts |-> 0, sleeps |-> 0, why |-> "none", answer |-> "ok"]
\* a path with no file, and a file whose text is not JSON
NoFile == [t |-> "nofile"]
BadText == [t |-> "text"]

\* dict.get(key): None when the key is missing
Get(o, k) ==
    IF k \in DOMAIN o.f THEN o.f[k] ELSE Null

\* truth value of a Python object
Truthy(v) ==
    CASE v.t = "null" -> FALSE
      [] v.t = "str" -> v.s # ""
      [] v.t = "int" -> v.n # 0
      [] v.t = "list" -> v.items # <<>>
      [] v.t = "obj" -> DOMAIN v.f # {}

\* a or b
Or(a, b) ==
    IF Truthy(a) THEN a ELSE b

IntText == [i \in 0..9 |-> <<"0", "1", "2", "3", "4", "5", "6", "7", "8", "9">>[i + 1]]

\* str(v); the text of a dict or a list is kept as the value it was made from
PyStr(v) ==
    CASE v.t = "str" -> v
      [] v.t = "int" -> Str(IntText[v.n])
      [] v.t = "null" -> Str("None")
      [] OTHER -> [t |-> "str", repr |-> v]

\* ------------------------------------------------------ fetch_rtm_data.py
CandidateKeys ==
    <<"testCaseExecutions", "testCaseExecutionList", "tces", "testCases", "issues", "results">>

CandidateSet == {CandidateKeys[i] : i \in DOMAIN CandidateKeys}

NormalizeStatus_StatusFirst(raw_status) ==
    IF raw_status.t = "obj"
    THEN Or(Or(Get(raw_status, "status"), Get(raw_status, "name")), PyStr(raw_status))
    ELSE IF raw_status.t = "null" THEN Str("UNKNOWN")
    ELSE PyStr(raw_status)

normalize_status(raw_status) ==
    IF raw_status.t = "obj"
    THEN Or(Or(Get(raw_status, "name"), Get(raw_status, "status")), PyStr(raw_status))
    ELSE IF raw_status.t = "null" THEN Str("UNKNOWN")
    ELSE PyStr(raw_status)

WinningKey_FirstNonEmpty(r) ==
    IF \E i \in DOMAIN CandidateKeys : Truthy(Get(r, CandidateKeys[i])) /\ Get(r, CandidateKeys[i]).t = "list"
    THEN CHOOSE i \in DOMAIN CandidateKeys :
            /\ Truthy(Get(r, CandidateKeys[i])) /\ Get(r, CandidateKeys[i]).t = "list"
            /\ \A j \in DOMAIN CandidateKeys :
                  Truthy(Get(r, CandidateKeys[j])) /\ Get(r, CandidateKeys[j]).t = "list" => i <= j
    ELSE 0

\* for key in candidate_keys: ... if isinstance(value, list): ... break
\* The index of the key the loop stops at, 0 when it runs to the end.
WinningKey(r) ==
    IF \E i \in DOMAIN CandidateKeys : Get(r, CandidateKeys[i]).t = "list"
    THEN CHOOSE i \in DOMAIN CandidateKeys :
            /\ Get(r, CandidateKeys[i]).t = "list"
            /\ \A j \in DOMAIN CandidateKeys : Get(r, CandidateKeys[j]).t = "list" => i <= j
    ELSE 0

KeyAliases == <<"key", "testCaseKey", "testCaseId", "id">>
NameAliases == <<"summary", "name", "title">>
ByAliases == <<"executedBy", "assignee", "tester">>
OnAliases == <<"executedOn", "executionDate", "updated">>
DefectAliases == <<"defects", "bugs">>
CommentAliases == <<"comment", "comments">>

\* item.get(a1) or item.get(a2) or ... : the first truthy value, else the last
RECURSIVE OrChain(_, _, _)
OrChain(item, aliases, i) ==
    IF i >= Len(aliases) THEN Get(item, aliases[i])
    ELSE Or(Get(item, aliases[i]), OrChain(item, aliases, i + 1))

\* the first alias whose value is not None
FirstOf_NonNull(item, aliases) ==
    LET I == {i \in DOMAIN aliases : Get(item, aliases[i]) # Null}
    IN  IF I = {} THEN Null
        ELSE Get(item, aliases[CHOOSE i \in I : \A j \in I : i <= j])

FirstOf(item, aliases) ==
    OrChain(item, aliases, 1)

\* the dictionary appended for one element of the array
NormalizeItem(item) ==
    [key |-> FirstOf(item, KeyAliases),
     name |-> Or(FirstOf(item, NameAliases), Str("")),
     status |-> normalize_status(Get(item, "status")),
     executedBy |-> FirstOf(item, ByAliases),
     executedOn |-> FirstOf(item, OnAliases),
     defects |-> Or(FirstOf(item, DefectAliases), List(<<>>)),
     comment |-> Or(FirstOf(item, CommentAliases), Str("")),
     raw |-> item]

\* item.get raises AttributeError on an element that is not a dict.
extract_test_cases(r) ==
    LET w == WinningKey(r)
        tces == IF w = 0 THEN <<>> ELSE Get(r, CandidateKeys[w]).items
        bad == \E i \in DOMAIN tces : tces[i].t # "obj"
    IN  [raised |-> bad,
         used |-> w,
         cases |-> IF bad THEN <<>> ELSE [i \in DOMAIN tces |-> NormalizeItem(tces[i])]]

\* ----------------------------------------------------- input sets (fetch)
MaxKeys == 2
MaxLen == 2

StatusVals ==
    {Null, Str("Fail"), Str(""), Num(0), Num(7)}
    \cup {Obj(fn) : fn \in UNION {[K -> {Null, Str(""), Num(0), Str("Pass"), Str("Fail")}] :
                                   K \in SUBSET {"name", "status"}}}

Items ==
    {Obj([k \in {"status"} |-> Obj([j \in {"status"} |-> Str("Pass")])]),
     Obj([k \in {"key"} |-> Str("TC-1")]),
     Str("TC-2")}

\* Elements that differ in one group of aliased fields: every alias of the
\* group is absent or holds one of vals or the alias's own name as a string.
AliasItemsOf(aliases, vals) ==
    LET A == {aliases[i] : i \in DOMAIN aliases}
    IN  {Obj(fn) : fn \in UNION {{g \in [K -> vals \cup {Str(a) : a \in A}] :
                                     \A k \in K : g[k].t = "str" /\ g[k].s \in A => g[k].s = k} :
                                   K \in SUBSET A}}

AliasItems ==
    AliasItemsOf(KeyAliases, {Null, Num(0)})
    \cup AliasItemsOf(NameAliases, {Null, Str("")})
    \cup AliasItemsOf(ByAliases, {Null, Str("")})
    \cup AliasItemsOf(OnAliases, {Null, Str("")})
    \cup AliasItemsOf(DefectAliases, {Null, List(<<>>), List(<<Str("BUG-1")>>)})
    \cup AliasItemsOf(CommentAliases, {Null, Str(""), Num(0)})

ItemSeqs == UNION {[1..n -> Items] : n \in 0..MaxLen}

ArrVals == {Str("n/a")} \cup {List(xs) : xs \in ItemSeqs}

\* the values with arrays of at most one element
ShortArrVals == {Str("n/a")} \cup {List(xs) : xs \in UNION {[1..n -> Items] : n \in 0..1}}

VARIABLES
    pages,        \* remote store: pages at (CONFLUENCE_SPACE, CONFLUENCE_TITLE), id = index
    pc,           \* position of the script: "idle", a stage, or "exit"
    attempt,      \* loop variable of safe_request
    sleeps,       \* time.sleep(3) calls made by the current safe_request call
    outs,         \* outcomes of the attempts of the current call ("S" / "F")
    lastCall,     \* the most recent finished safe_request call
    page,         \* result of find_page (NoPage for None)
    pageId,       \* page_data["id"]
    existing,     \* id of the attachment matched by title, 0 for None
    body,         \* content of the report files in this run: the number of the
                  \* run, as every generated report carries its own timestamp
    exit,         \* how the last run ended
    prevExit,     \* how the run before it ended
    runs,         \* runs started
    extWrites,    \* updates made by another writer
    faults,       \* attempts the environment has failed, lost or garbled so far
    verBefore,    \* version of the page at the key when the run started
    okStages,     \* stages whose request returned in this run
    issued,       \* stages that sent a request in this run, in order
    putSent,      \* PUT attempts sent in this run
    wrote,        \* the store has applied a page write of this run
    conflictSeen, \* the store answered 409 to a PUT of a run none of whose
                  \* writes it had applied: another writer made the version stale
    okBodies,     \* bodies of the runs that ended with status 0
    lookupResults, \* number of results the page lookup of this run returned
    writeKinds,   \* kinds of page write ("create", "update") sent in this run
    lastPut,      \* page id, version and title of the last PUT sent in this run
    http,         \* this run: HTTP attempts sent and safe_request calls made
    raw,          \* fetch_rtm_data.py: the JSON root returned by resp.json()
    saved,        \* fetch_rtm_data.py: what main() computed from raw
    fetch,        \* fetch_rtm_data.py: attempts made and how the request ended
    outPath,      \* RTM_OUTPUT_JSON
    disk,         \* the JSON files under data/, by path
    gen,          \* generate_rtm_report.py: the last run
    prevGen,      \* generate_rtm_report.py: the run before it
    latest,       \* report/rtm_report.html and report/rtm_report.pdf
    genRuns,      \* runs of generate_rtm_report.py
    now,          \* the wall clock, in seconds
    cur,          \* the PDF cursor: page and y
    row,          \* the last table row drawn by pdf_multicell_row
    rowsDrawn     \* rows drawn so far

callVars == <<attempt, sleeps, outs, lastCall>>
runVars == <<page, pageId, existing, body, verBefore, okStages, issued, putSent, wrote,
             conflictSeen, lookupResults, writeKinds, lastPut, http>>
vars == <<pages, pc, attempt, sleeps, outs, lastCall, page, pageId, existing, body,
          exit, prevExit, runs, extWrites, faults, verBefore, okStages, issued,
          putSent, wrote, conflictSeen, okBodies, lookupResults, writeKinds, lastPut,
          http, raw, saved, fetch, outPath, disk, gen, prevGen, latest, genRuns, now,
          cur, row, rowsDrawn>>
normVars == <<raw, saved, fetch, outPath, disk>>
genVars == <<gen, prevGen, latest, genRuns, now>>
pdfVars == <<cur, row, rowsDrawn>>
pubVars == <<pages, pc, attempt, sleeps, outs, lastCall, page, pageId, existing, body,
             exit, prevExit, runs, extWrites, faults, verBefore, okStages, issued,
             putSent, wrote, conflictSeen, okBodies, lookupResults, writeKinds, lastPut,
             http>>

\* ------------------------------------------------------------ remote store
\* POST /content: a new page at version 1.
StoreCreatePage(ps, b) ==
    Append(ps, [version |-> 1, title |-> Title, body |-> b, atts |-> <<>>])

\* PUT /content/{id} is accepted only with version = current + 1.
StoreAccepts(ps, id, v) ==
    v = ps[id].version + 1

StoreUpdatePage(ps, id, v, b) ==
    [ps EXCEPT ![id].version = v, ![id].title = Title, ![id].body = b]

\* POST /content/{id}/child/attachment: a new attachment.
StoreAddAtt(ps, id, fn, c) ==
    [ps EXCEPT ![id].atts = Append(@, [title |-> fn, content |-> c])]

\* POST /content/{id}/child/attachment/{attachmentId}/data: same id, new content.
StoreReplaceAtt(ps, id, aid, c) ==
    [ps EXCEPT ![id].atts[aid].content = c]

\* What the environment can do to one attempt.  applied: the store carried
\* the request out.  A RequestException raised by a read timeout leaves the
\* request applied although no response arrived.
EnvOutcomes ==
    {[status |-> s, applied |-> TRUE, bodyOk |-> b] : s \in {"200", "201"}, b \in BOOLEAN}
    \cup {[status |-> "500", applied |-> FALSE, bodyOk |-> TRUE]}
    \cup {[status |-> "204", applied |-> TRUE, bodyOk |-> TRUE]}
    \cup {[status |-> EXC, applied |-> a, bodyOk |-> TRUE] : a \in BOOLEAN}

EnvFault(o) ==
    o.status \notin {"200", "201"} \/ ~o.bodyOk

\* The outcomes still open to the environment after f faults.
Outcomes(f) ==
    {o \in EnvOutcomes : EnvFault(o) => f < MaxFaults}

CountFault(f, o) ==
    IF EnvFault(o) THEN f + 1 ELSE f

\* ----------------------------------------------------------------- client
\* if resp.status_code in [200, 201]: return resp
SuccessStatus_Any2xx(s) ==
    s \in {"200", "201", "204"}

SuccessStatus(s) ==
    s \in {"200", "201"}

ShouldSleep_Always(a) ==
    TRUE

\* if attempt < 3: time.sleep(3)
ShouldSleep(a) ==
    a < 3

LoopEnds_OneMore(a) ==
    a > MaxAttempts

LoopEnds(a) ==
    a >= MaxAttempts

PublishExitCode(cause) ==
    CASE cause = "ok" -> ExitOk
      [] cause = "config" -> ExitConfig
      [] cause = "files" -> ExitFiles
      [] cause = "transport" -> ExitFatal
      [] cause = "unexpected" -> ExitFatal
      [] cause = "attachment" -> ExitAttachment

PublishExit(cause, at) ==
    [stage |-> "publish", cause |-> cause, code |-> PublishExitCode(cause), at |-> at]

\* the script without the check of lines 76-79
GenCause_EmptyOk(fileExists, jsonOk, nIssues, renderOk) ==
    IF ~fileExists THEN "missing"
    ELSE IF ~jsonOk THEN "badjson"
    ELSE IF ~renderOk THEN "render"
    ELSE "ok"

\* generate_rtm_report.py: which exit the script takes.
GenCause(fileExists, jsonOk, nIssues, renderOk) ==
    IF ~fileExists THEN "missing"
    ELSE IF ~jsonOk THEN "badjson"
    ELSE IF nIssues = 0 THEN "empty"
    ELSE IF ~renderOk THEN "render"
    ELSE "ok"

GenExitCode(cause) ==
    CASE cause = "ok" -> ExitOk
      [] cause = "missing" -> GenExitMissing
      [] cause = "badjson" -> GenExitBadJson
      [] cause = "empty" -> GenExitEmpty
      [] cause = "render" -> GenExitRender

GenExit(cause) ==
    [stage |-> "generate", cause |-> cause, code |-> GenExitCode(cause), at |-> "none"]

FindPage_Never(ps) ==
    NoPage

\* results[0] if results else None
FindPage(ps) ==
    IF Len(ps) > 0 THEN [id |-> 1, version |-> ps[1].version, title |-> ps[1].title]
    ELSE NoPage

\* the version number the client last read, sent again
UpdateVersion_Same(p) ==
    p.version

\* existing_page.get("version", {}).get("number", 1) + 1
UpdateVersion(p) ==
    p.version + 1

\* next((a for a in attachments if a["title"] == file_name), None)
FindAttachment(atts, fn) ==
    IF \E i \in DOMAIN atts : atts[i].title = fn
    THEN CHOOSE i \in DOMAIN atts :
            /\ atts[i].title = fn
            /\ \A j \in DOMAIN atts : atts[j].title = fn => i <= j
    ELSE 0

\* the PDF attachment before the HTML attachment
NextStage_PdfFirst(s) ==
    CASE s = "lookup" -> "write"
      [] s = "write" -> "listPdf"
      [] s = "listPdf" -> "upPdf"
      [] s = "upPdf" -> "listHtml"
      [] s = "listHtml" -> "upHtml"
      [] s = "upHtml" -> "exit"

NextStage(s) ==
    CASE s = "lookup" -> "write"
      [] s = "write" -> "listHtml"
      [] s = "listHtml" -> "upHtml"
      [] s = "upHtml" -> "listPdf"
      [] s = "listPdf" -> "upPdf"
      [] s = "upPdf" -> "exit"

AfterExhausted_Continue(s) ==
    NextStage(s)

\* Where the script goes when safe_request has used up its attempts:
\* sys.exit(99) ends the process ("abort"), no caller sees a return.
AfterExhausted(s) ==
    "abort"

FileOf(s) ==
    IF s \in {"listHtml", "upHtml"} THEN HtmlName ELSE PdfName

Issue(s) ==
    IF \E i \in DOMAIN issued : issued[i] = s THEN issued ELSE Append(issued, s)

\* ------------------------------------------------------------ safe_request
\* What a finished call keeps of its last response: the status code, with the
\* two codes that line 79 accepts kept as one value.
StatusSeen(st) ==
    IF st \in {"200", "201"} THEN "200/201" ELSE st

\* requests.request(...) of attempt a was sent (line 78): one more attempt;
\* attempt 1 is the start of a new call of safe_request.
Sent(h, a) ==
    [attempts |-> h.attempts + 1,
     calls |-> IF a = 1 THEN h.calls + 1 ELSE h.calls]

\* The attempt failed: log, sleep unless it was the last one, go round the
\* loop again or fall out of it into sys.exit(99).
AttemptFailed(st) ==
    LET nxt == AfterExhausted(pc)
        call == [attempts |-> attempt, sleeps |-> sleeps', outs |-> Append(outs, "F"),
                 returned |-> FALSE, status |-> StatusSeen(st)]
    IN  /\ sleeps' = IF ShouldSleep(attempt) THEN sleeps + 1 ELSE sleeps
        /\ IF LoopEnds(attempt)
           THEN /\ attempt' = 1
                /\ outs' = <<>>
                /\ lastCall' = call
                /\ pc' = IF nxt = "abort" THEN "exit" ELSE nxt
                /\ exit' = IF nxt = "abort" THEN PublishExit("transport", pc)
                           ELSE IF nxt = "exit" THEN PublishExit("ok", "none") ELSE exit
                /\ okBodies' = IF nxt = "exit" THEN Append(okBodies, body) ELSE okBodies
           ELSE /\ attempt' = attempt + 1
                /\ outs' = Append(outs, "F")
                /\ lastCall' = lastCall
                /\ pc' = pc
                /\ exit' = exit
                /\ okBodies' = okBodies

\* The attempt returned a response with status 200 or 201 to the caller,
\* which goes on to stage nxt.
AttemptReturned(nxt, st) ==
    /\ sleeps' = 0
    /\ attempt' = 1
    /\ outs' = <<>>
    /\ lastCall' = [attempts |-> attempt, sleeps |-> sleeps, outs |-> Append(outs, "S"),
                    returned |-> TRUE, status |-> StatusSeen(st)]
    /\ okStages' = okStages \cup {pc}
    /\ pc' = nxt
    /\ IF nxt = "exit"
       THEN /\ exit' = PublishExit("ok", "none")
            /\ okBodies' = Append(okBodies, body)
       ELSE /\ exit' = exit
            /\ okBodies' = okBodies

\* The attempt returned, and the caller raised while reading the response
\* (resp.json(), page_data["id"]): except Exception, sys.exit(99).
CallerRaised(st) ==
    /\ sleeps' = 0
    /\ attempt' = 1
    /\ outs' = <<>>
    /\ lastCall' = [attempts |-> attempt, sleeps |-> sleeps, outs |-> Append(outs, "S"),
                    returned |-> TRUE, status |-> StatusSeen(st)]
    /\ okStages' = okStages
    /\ pc' = "exit"
    /\ exit' = PublishExit("unexpected", pc)
    /\ okBodies' = okBodies

\* safe_request returned a response that fails the status check of
\* upload_attachment (lines 155-159): sys.exit(6).
AttachmentRejected(st) ==
    /\ sleeps' = 0
    /\ attempt' = 1
    /\ outs' = <<>>
    /\ lastCall' = [attempts |-> attempt, sleeps |-> sleeps, outs |-> Append(outs, "S"),
                    returned |-> TRUE, status |-> StatusSeen(st)]
    /\ okStages' = okStages
    /\ pc' = "exit"
    /\ exit' = PublishExit("attachment", pc)
    /\ okBodies' = okBodies

\* ----------------------------------------------------------------- actions
PubInit ==
    /\ pages = <<>>
    /\ pc = "idle"
    /\ attempt = 1
    /\ sleeps = 0
    /\ outs = <<>>
    /\ lastCall = NoCall
    /\ page = NoPage
    /\ pageId = 0
    /\ existing = 0
    /\ body = 0
    /\ exit = NoExit
    /\ prevExit = NoExit
    /\ runs = 0
    /\ extWrites = 0
    /\ faults = 0
    /\ verBefore = 0
    /\ okStages = {}
    /\ issued = <<>>
    /\ putSent = 0
    /\ wrote = FALSE
    /\ conflictSeen = FALSE
    /\ okBodies = <<>>
    /\ lookupResults = 0
    /\ writeKinds = {}
    /\ lastPut = NoPut
    /\ http = NoHttp

\* Script start and the validation block (lines 58-64).
StartRun ==
    /\ pc \in {"idle", "exit"}
    /\ runs < MaxRuns
    /\ body' = runs + 1
    /\ \E cfgOk \in BOOLEAN, filesOk \in BOOLEAN :
          /\ IF ~cfgOk
             THEN pc' = "exit" /\ exit' = PublishExit("config", "none")
             ELSE IF ~filesOk
                  THEN pc' = "exit" /\ exit' = PublishExit("files", "none")
                  ELSE pc' = "lookup" /\ exit' = NoExit
    /\ prevExit' = exit
    /\ runs' = runs + 1
    /\ attempt' = 1
    /\ sleeps' = 0
    /\ outs' = <<>>
    /\ lastCall' = NoCall
    /\ page' = NoPage
    /\ pageId' = 0
    /\ existing' = 0
    /\ verBefore' = IF Len(pages) > 0 THEN pages[1].version ELSE 0
    /\ okStages' = {}
    /\ issued' = <<>>
    /\ putSent' = 0
    /\ wrote' = FALSE
    /\ conflictSeen' = FALSE
    /\ lookupResults' = 0
    /\ writeKinds' = {}
    /\ lastPut' = NoPut
    /\ http' = NoHttp
    /\ UNCHANGED <<pages, extWrites, faults, okBodies>>
    /\ UNCHANGED <<normVars, genVars, pdfVars>>

\* find_page: GET /content?title=&spaceKey=&expand=version
FindPageStep ==
    /\ pc = "lookup"
    /\ \E o \in Outcomes(faults) :
          /\ faults' = CountFault(faults, o)
          /\ http' = Sent(http, attempt)
          /\ IF SuccessStatus(o.status)
             THEN IF o.bodyOk
                  THEN /\ AttemptReturned(NextStage(pc), o.status)
                       /\ page' = FindPage(pages)
                       /\ lookupResults' = Len(pages)
                  ELSE CallerRaised(o.status) /\ page' = page /\ lookupResults' = lookupResults
             ELSE /\ AttemptFailed(o.status)
                  /\ page' = page
                  /\ okStages' = okStages
                  /\ lookupResults' = lookupResults
    /\ issued' = Issue(pc)
    /\ UNCHANGED <<pages, extWrites, pageId, existing, body, prevExit, runs, verBefore,
                   putSent, wrote, conflictSeen, writeKinds, lastPut>>
    /\ UNCHANGED <<normVars, genVars, pdfVars>>

\* create_or_update_page: POST /content when find_page returned None,
\* else PUT /content/{id} with version + 1.
CreateOrUpdateStep ==
    /\ pc = "write"
    /\ \E o \in Outcomes(faults) :
          LET isPut == page # NoPage
              ver == UpdateVersion(page)
              stale == isPut /\ o.applied /\ ~StoreAccepts(pages, page.id, ver)
              status == IF stale /\ o.status # EXC THEN Conflict ELSE o.status
              applied == o.applied /\ ~stale
              newId == IF isPut THEN page.id ELSE Len(pages) + 1
          IN  /\ faults' = CountFault(faults, o)
              /\ http' = Sent(http, attempt)
              /\ pages' = IF ~applied THEN pages
                          ELSE IF isPut THEN StoreUpdatePage(pages, page.id, ver, body)
                               ELSE StoreCreatePage(pages, body)
              /\ putSent' = IF isPut THEN putSent + 1 ELSE putSent
              /\ writeKinds' = writeKinds \cup {IF isPut THEN "update" ELSE "create"}
              /\ lastPut' = IF isPut
                            THEN [id |-> page.id, version |-> ver, title |-> Title]
                            ELSE lastPut
              /\ wrote' = (wrote \/ applied)
              /\ conflictSeen' = (conflictSeen \/ (status = Conflict /\ ~wrote))
              /\ IF SuccessStatus(status)
                 THEN IF o.bodyOk
                      THEN AttemptReturned(NextStage(pc), status) /\ pageId' = newId
                      ELSE CallerRaised(status) /\ pageId' = pageId
                 ELSE AttemptFailed(status) /\ pageId' = pageId /\ okStages' = okStages
    /\ issued' = Issue(pc)
    /\ UNCHANGED <<extWrites, page, existing, body, prevExit, runs, verBefore, lookupResults>>
    /\ UNCHANGED <<normVars, genVars, pdfVars>>

\* upload_attachment, first half: GET the attachment list, match by title.
ListAttachmentsStep ==
    /\ pc \in {"listHtml", "listPdf"}
    /\ \E o \in Outcomes(faults) :
          /\ faults' = CountFault(faults, o)
          /\ http' = Sent(http, attempt)
          /\ IF SuccessStatus(o.status)
             THEN IF o.bodyOk
                  THEN /\ AttemptReturned(NextStage(pc), o.status)
                       /\ existing' = FindAttachment(pages[pageId].atts, FileOf(pc))
                  ELSE CallerRaised(o.status) /\ existing' = existing
             ELSE AttemptFailed(o.status) /\ existing' = existing /\ okStages' = okStages
    /\ issued' = Issue(pc)
    /\ UNCHANGED <<pages, extWrites, page, pageId, body, prevExit, runs, verBefore,
                   putSent, wrote, conflictSeen, lookupResults, writeKinds, lastPut>>
    /\ UNCHANGED <<normVars, genVars, pdfVars>>

\* upload_attachment, second half: POST to .../{attach_id}/data when an
\* attachment with the file name exists, else POST a new attachment; then
\* the status check of lines 155-159.
UploadStep ==
    /\ pc \in {"upHtml", "upPdf"}
    /\ \E o \in {x \in Outcomes(faults) : x.bodyOk} :
          /\ faults' = CountFault(faults, o)
          /\ http' = Sent(http, attempt)
          /\ pages' = IF ~o.applied THEN pages
                      ELSE IF existing # 0
                           THEN StoreReplaceAtt(pages, pageId, existing, body)
                           ELSE StoreAddAtt(pages, pageId, FileOf(pc), body)
          /\ IF SuccessStatus(o.status)
             THEN IF o.status \in {"200", "201"}
                  THEN AttemptReturned(NextStage(pc), o.status)
                  ELSE AttachmentRejected(o.status)
             ELSE AttemptFailed(o.status) /\ okStages' = okStages
    /\ issued' = Issue(pc)
    /\ UNCHANGED <<extWrites, page, pageId, existing, body, prevExit, runs, verBefore,
                   putSent, wrote, conflictSeen, lookupResults, writeKinds, lastPut>>
    /\ UNCHANGED <<normVars, genVars, pdfVars>>

\* generate_rtm_report.py from start to sys.exit: input validation (lines
\* 65-79), then main() (lines 325-338).  Only the exit status is kept here;
\* GenerateReport below is the same script with its clock reads and files.
GenRun ==
    /\ pc \in {"idle", "exit"}
    /\ runs < MaxRuns
    /\ \E fileExists \in BOOLEAN, jsonOk \in BOOLEAN, nIssues \in 0..1, renderOk \in BOOLEAN :
          exit' = GenExit(GenCause(fileExists, jsonOk, nIssues, renderOk))
    /\ pc' = "exit"
    /\ prevExit' = exit
    /\ runs' = runs + 1
    /\ attempt' = 1
    /\ sleeps' = 0
    /\ outs' = <<>>
    /\ lastCall' = NoCall
    /\ page' = NoPage
    /\ pageId' = 0
    /\ existing' = 0
    /\ verBefore' = 0
    /\ okStages' = {}
    /\ issued' = <<>>
    /\ putSent' = 0
    /\ wrote' = FALSE
    /\ conflictSeen' = FALSE
    /\ lookupResults' = 0
    /\ writeKinds' = {}
    /\ lastPut' = NoPut
    /\ http' = NoHttp
    /\ UNCHANGED <<pages, extWrites, faults, okBodies, body>>
    /\ UNCHANGED <<normVars, genVars, pdfVars>>

\* Another writer updates a page of the store (body 0: no run's report).
ExtUpdate ==
    /\ extWrites < MaxExt
    /\ \E p \in DOMAIN pages :
          pages' = StoreUpdatePage(pages, p, pages[p].version + 1, 0)
    /\ extWrites' = extWrites + 1
    /\ UNCHANGED <<pc, callVars, runVars, exit, prevExit, runs, okBodies, faults>>
    /\ UNCHANGED <<normVars, genVars, pdfVars>>

\* How the single requests.get of main() can end (lines 113-137).
FetchOutcomes == {"ok", "exception", "status", "json"}

\* raw.get("summary") or raw.get("name") or raw.get("description") or ""
FetchSummary(r) ==
    Or(FirstOf(r, <<"summary", "name", "description">>), Str(""))

\* data_to_save (lines 143-151)
FetchDoc(r, tcs, t) ==
    Obj([k \in {"fetchedAt", "projectKey", "executionKey", "summary", "status",
                "testCases", "raw"} |->
            CASE k = "fetchedAt" -> Num(t)
              [] k = "projectKey" -> Str("RTM_PROJECT_KEY")
              [] k = "executionKey" -> Str("RTM_EXECUTION_KEY")
              [] k = "summary" -> FetchSummary(r)
              [] k = "status" -> normalize_status(Get(r, "status"))
              [] k = "testCases" -> List([i \in DOMAIN tcs |-> Obj(tcs[i])])
              [] k = "raw" -> r])

\* fetch_rtm_data.py main(), from the request to the saved file (lines
\* 113-160).  The request is sent once: a RequestException, a status outside
\* 200..299 and an undecodable body each end the script with sys.exit(3).
\* An exception of extract_test_cases is not caught: the script dies before
\* overall_status is computed and before anything is saved.  Before main()
\* runs, raw is the root the upstream holds.
FetchMain ==
    /\ ~saved.ran
    /\ fetch.why = "none"
    /\ fetch' = [attempts |-> 1, sleeps |-> 0, why |-> fetch.answer, answer |-> fetch.answer]
    /\ IF fetch.answer # "ok"
       THEN /\ saved' = saved
            /\ disk' = disk
       ELSE LET tc == extract_test_cases(raw)
            IN  /\ saved' = IF tc.raised
                             THEN [ran |-> TRUE, raised |-> TRUE, used |-> tc.used]
                             ELSE [ran |-> TRUE, raised |-> FALSE, used |-> tc.used,
                                   status |-> normalize_status(Get(raw, "status")),
                                   testCases |-> tc.cases]
                /\ disk' = IF tc.raised THEN disk
                            ELSE [disk EXCEPT ![outPath] = FetchDoc(raw, tc.cases, now)]
    /\ UNCHANGED <<raw, outPath>>
    /\ UNCHANGED <<pubVars, genVars, pdfVars>>

\* ------------------------------------------------ generate_rtm_report.py
MaxGenRuns == 2
MaxClock == 1
MaxIssues == 1

NoReport == [kind |-> "none", rows |-> <<>>, summary |-> <<>>, generatedOn |-> 0]
NoGen == [ran |-> FALSE, exit |-> NoExit, stamp |-> 0, html |-> NoReport, pdf |-> NoReport,
          input |-> NoFile, afterFetch |-> FALSE, failed |-> "none"]
\* what is kept of the run before the last: its stamp, input and HTML text
Earlier(g) ==
    [stamp |-> g.stamp, input |-> g.input, html |-> g.html]

NoLatest == [html |-> NoReport, pdf |-> NoReport]

\* dict.get(key, default)
GetDefault(o, k, d) ==
    IF k \in DOMAIN o.f THEN o.f[k] ELSE d

\* data.get("issues", [])
IssuesOf(data) ==
    GetDefault(data, "issues", List(<<>>))

\* status_summary: occurrences of issue.get("status") or "Unknown"
StatusSummary(q) ==
    LET st(i) == Or(Get(q[i], "status"), Str("Unknown"))
    IN  [v \in {st(i) : i \in DOMAIN q} |-> Cardinality({i \in DOMAIN q : st(i) = v})]

\* one row of the HTML table (lines 98-105)
HtmlRow(i) ==
    <<GetDefault(i, "key", Str("")),
      Or(GetDefault(i, "summary", Str("")), Str("")),
      Or(GetDefault(i, "type", Str("")), Str("")),
      Or(GetDefault(i, "priority", Str("")), Str("")),
      Or(GetDefault(i, "assignee", Str("")), Str("Unassigned")),
      Or(GetDefault(i, "status", Str("")), Str(""))>>

\* one row of the PDF table (lines 301-308)
PdfRow(i) ==
    <<Or(GetDefault(i, "key", Str("")), Str("")),
      Or(GetDefault(i, "summary", Str("")), Str("")),
      Or(GetDefault(i, "type", Str("")), Str("")),
      Or(GetDefault(i, "priority", Str("")), Str("")),
      Or(GetDefault(i, "assignee", Str("")), Str("Unassigned")),
      Or(GetDefault(i, "status", Str("")), Str(""))>>

\* The HTML text: the table, the status breakdown and the "Generated On"
\* line, which is datetime.now() read inside generate_html (line 121).
HtmlReport(q, t) ==
    [kind |-> "html", rows |-> [i \in DOMAIN q |-> HtmlRow(q[i])],
     summary |-> StatusSummary(q), generatedOn |-> t]

\* The PDF bytes; "Generated:" in the page header is datetime.now() read in
\* header() (line 216).
PdfReport(q, t) ==
    [kind |-> "pdf", rows |-> [i \in DOMAIN q |-> PdfRow(q[i])],
     summary |-> StatusSummary(q), generatedOn |-> t]

\* The write that fails in a run, if any: HTML_FILE (line 181), HTML_LATEST
\* (line 183), pdf.output (line 313), PDF_LATEST (line 316).
WriteFailures == {"none", "html", "htmlLatest", "pdf", "pdfLatest"}

\* An exception in generate_html or generate_pdf reaches main() (line 333);
\* the one around PDF_LATEST.write_bytes is caught in place (lines 315-318).
RenderRaises(failAt) ==
    failAt \in {"html", "htmlLatest", "pdf"}

GenIssues ==
    {Obj([k \in {"key", "summary", "type", "priority", "assignee", "status"} |->
             CASE k = "key" -> Str("RTM-1")
               [] k = "summary" -> Str("Login works")
               [] k = "type" -> Str("Test")
               [] k = "priority" -> Str("High")
               [] k = "assignee" -> Str("ann")
               [] k = "status" -> Str("Pass")]),
     Obj([k \in {"key", "assignee"} |-> IF k = "key" THEN Str("RTM-2") ELSE Null])}

IssueSeqs == UNION {[1..n -> GenIssues] : n \in 0..MaxIssues}

\* what may lie at DATA_FILE when the script starts
DataFiles ==
    {NoFile, BadText} \cup {Obj([k \in {"issues"} |-> List(q)]) : q \in IssueSeqs}

\* generate_rtm_report.py from start to sys.exit: the file stamp ts (line 31),
\* input validation (lines 65-79), generate_html, generate_pdf, main().
GenerateReport ==
    /\ genRuns < MaxGenRuns
    /\ \E t1 \in now..MaxClock, d2 \in 0..1, d3 \in 0..1, failAt \in WriteFailures :
          LET data == disk[DataFile]
              fileExists == data # NoFile
              jsonOk == data # BadText
              issues == IF fileExists /\ jsonOk THEN IssuesOf(data) ELSE List(<<>>)
              q == IF Truthy(issues) THEN issues.items ELSE <<>>
              cause == GenCause(fileExists, jsonOk, Len(q), ~RenderRaises(failAt))
              rendering == cause \in {"render", "ok"}
              t2 == t1 + d2
              t3 == t2 + d3
              htmlDone == rendering /\ failAt # "html"
              htmlLatestDone == htmlDone /\ failAt # "htmlLatest"
              pdfDone == htmlLatestDone /\ failAt # "pdf"
              pdfLatestDone == pdfDone /\ failAt # "pdfLatest"
          IN  /\ t3 <= MaxClock
              /\ ~rendering => (d2 = 0 /\ d3 = 0 /\ failAt = "none")
              /\ ~htmlLatestDone => d3 = 0
              /\ gen' = [ran |-> TRUE,
                         exit |-> GenExit(cause),
                         stamp |-> t1,
                         html |-> IF htmlDone THEN HtmlReport(q, t2) ELSE NoReport,
                         pdf |-> IF pdfDone THEN PdfReport(q, t3) ELSE NoReport,
                         input |-> data,
                         afterFetch |-> (fetch.why = "ok" /\ saved.ran /\ ~saved.raised),
                         failed |-> IF rendering THEN failAt ELSE "none"]
              /\ latest' = [html |-> IF htmlLatestDone THEN HtmlReport(q, t2) ELSE latest.html,
                            pdf |-> IF pdfLatestDone THEN PdfReport(q, t3) ELSE latest.pdf]
              /\ now' = t3
    /\ prevGen' = Earlier(gen)
    /\ genRuns' = genRuns + 1
    /\ UNCHANGED <<pubVars, normVars, pdfVars>>

\* ------------------------------------------------------ pdf_multicell_row
\* Lengths are in half millimetres.
MaxRows == 16
MaxWrap == 3
NCols == 6
LineHeight == 11
PageBreakTrigger == 564
HeaderBottom == 60
FirstRowY == 104

NoRow == [wrapped |-> <<>>, counts |-> <<>>, height |-> 0, rects |-> <<>>,
          yStart |-> 0, yEnd |-> 0, pageStart |-> 0, pageEnd |-> 0]

\* Python's // on a positive divisor
FloorDiv(a, b) ==
    IF a >= 0 THEN a \div b ELSE 0 - ((0 - a + b - 1) \div b)

\* FPDF.multi_cell(w, h, txt, 0) of a text that wraps into n lines: one cell
\* per line; a cell that would pass the page break trigger first starts a
\* new page, whose header leaves the cursor at HeaderBottom.
RECURSIVE MultiCell(_, _)
MultiCell(c, n) ==
    IF n = 0 THEN c
    ELSE MultiCell(IF c.y + LineHeight > PageBreakTrigger
                   THEN [page |-> c.page + 1, y |-> HeaderBottom + LineHeight]
                   ELSE [page |-> c.page, y |-> c.y + LineHeight],
                   n - 1)

\* int((pdf.get_y() - y) // line_height) or 1
LineCount(yBefore, yAfter) ==
    IF FloorDiv(yAfter - yBefore, LineHeight) = 0 THEN 1
    ELSE FloorDiv(yAfter - yBefore, LineHeight)

\* first loop (lines 244-252): the cursor after column i and the counts
RECURSIVE MeasureCells(_, _, _, _)
MeasureCells(c, wrapped, i, counts) ==
    IF i > Len(wrapped) THEN [c |-> c, counts |-> counts]
    ELSE LET after == MultiCell(c, wrapped[i])
         IN  MeasureCells([page |-> after.page, y |-> c.y], wrapped, i + 1,
                          Append(counts, LineCount(c.y, after.y)))

\* second loop (lines 258-264): the rectangles and the cursor after column i
RECURSIVE DrawCells(_, _, _, _, _)
DrawCells(c, wrapped, i, h, rects) ==
    IF i > Len(wrapped) THEN [c |-> c, rects |-> rects]
    ELSE LET after == MultiCell(c, wrapped[i])
         IN  DrawCells([page |-> after.page, y |-> c.y], wrapped, i + 1, h,
                       Append(rects, [page |-> c.page, y |-> c.y, h |-> h]))

SeqMax(q) ==
    CHOOSE m \in {q[i] : i \in DOMAIN q} : \A i \in DOMAIN q : q[i] <= m

pdf_multicell_row(c, wrapped) ==
    LET m == MeasureCells(c, wrapped, 1, <<>>)
        row_height == SeqMax(m.counts) * LineHeight
        d == DrawCells([page |-> m.c.page, y |-> c.y], wrapped, 1, row_height, <<>>)
    IN  [wrapped |-> wrapped, counts |-> m.counts, height |-> row_height,
         rects |-> d.rects, yStart |-> c.y, yEnd |-> d.c.y + row_height,
         pageStart |-> c.page, pageEnd |-> d.c.page]

\* The wrapped-line counts of the cells of a row: at most one cell holds a
\* text longer than its column is wide.
RowShapes ==
    {w \in [1..NCols -> 1..MaxWrap] : Cardinality({i \in 1..NCols : w[i] > 1}) <= 1}

\* generate_pdf, one turn of the loop over issues (lines 300-311).
DrawRow ==
    /\ rowsDrawn < MaxRows
    /\ \E wrapped \in RowShapes :
          /\ row' = pdf_multicell_row(cur, wrapped)
          /\ cur' = [page |-> row'.pageEnd, y |-> row'.yEnd]
    /\ rowsDrawn' = rowsDrawn + 1
    /\ UNCHANGED <<pubVars, normVars, genVars>>

\* ------------------------------------------------------------ initial states
FetchIdle ==
    /\ saved = NotRun
    /\ fetch = NoFetch
    /\ outPath = ExecFile
    /\ disk = [p \in {ExecFile, DataFile} |-> NoFile]

GenIdle ==
    /\ gen = NoGen
    /\ prevGen = Earlier(NoGen)
    /\ latest = NoLatest
    /\ genRuns = 0
    /\ now = 0

PdfIdle ==
    /\ cur = [page |-> 1, y |-> FirstRowY]
    /\ row = NoRow
    /\ rowsDrawn = 0

Init ==
    /\ PubInit
    /\ raw = Obj(<<>>)
    /\ FetchIdle
    /\ GenIdle
    /\ PdfIdle

\* The upstream answers with a root: every status value with at most one
\* candidate key present, every combination of up to MaxKeys candidate keys
\* with one status value (arrays of at most one element when more than two
\* keys are present), and every element of AliasItems alone in the array of
\* the first candidate key; or the request fails.
NormInit ==
    /\ PubInit
    /\ GenIdle
    /\ PdfIdle
    /\ saved = NotRun
    /\ outPath = ExecFile
    /\ disk = [p \in {ExecFile, DataFile} |-> NoFile]
    /\ \/ /\ fetch = NoFetch
          /\ \/ \E K \in {X \in SUBSET CandidateSet : Cardinality(X) <= MaxKeys} :
                   \E g \in [K -> IF Cardinality(K) <= 2 THEN ArrVals ELSE ShortArrVals] :
                      \E sv \in IF Cardinality(K) <= 1 THEN StatusVals ELSE {Str("Fail")} :
                         raw = Obj([k \in K \cup {"status"} |->
                                       IF k = "status" THEN sv ELSE g[k]])
             \/ \E it \in AliasItems :
                   raw = Obj([k \in {CandidateKeys[1]} |-> List(<<it>>)])
       \/ /\ \E a \in FetchOutcomes \ {"ok"} : fetch = [NoFetch EXCEPT !.answer = a]
          /\ raw = Obj(<<>>)

NormNext ==
    FetchMain

SpecNorm == NormInit /\ [][NormNext]_vars

\* The fetch and the report generator of one pipeline: the upstream holds a
\* root with a testCases array, RTM_OUTPUT_JSON is unset or names DATA_FILE,
\* and DATA_FILE is absent, unreadable or holds issues of another producer.
GenInit ==
    /\ PubInit
    /\ GenIdle
    /\ PdfIdle
    /\ saved = NotRun
    /\ \E a \in FetchOutcomes : fetch = [NoFetch EXCEPT !.answer = a]
    /\ raw \in {Obj([k \in {"testCases"} |-> List(q)]) :
                   q \in {<<>>, <<Obj([k \in {"key"} |-> Str("TC-1")])>>}}
    /\ outPath \in {ExecFile, DataFile}
    /\ \E d \in DataFiles :
          disk = [p \in {ExecFile, DataFile} |-> IF p = DataFile THEN d ELSE NoFile]

GenNext ==
    \/ FetchMain
    \/ GenerateReport

SpecGen == GenInit /\ [][GenNext]_vars

PdfInit ==
    /\ PubInit
    /\ raw = Obj(<<>>)
    /\ FetchIdle
    /\ GenIdle
    /\ PdfIdle

PdfNext ==
    DrawRow

SpecPdf == PdfInit /\ [][PdfNext]_vars

Next ==
    \/ StartRun
    \/ FindPageStep
    \/ CreateOrUpdateStep
    \/ ListAttachmentsStep
    \/ UploadStep
    \/ ExtUpdate
    \/ GenRun

Spec == Init /\ [][Next]_vars

\* ======================================================================
\* Claims
\* ======================================================================
FileNames == {HtmlName, PdfName}

AttCount(atts, fn) ==
    Cardinality({i \in DOMAIN atts : atts[i].title = fn})

PublishEnded ==
    pc = "exit" /\ exit.stage = "publish"

\* C1: safe_request makes at most 3 attempts and stops at the first success;
\* a call whose attempts go fail, fail, success returns the response with no
\* error and has slept exactly twice; a call whose three attempts all fail
\* ends the process with the transport failure after 3 attempts, and has
\* slept twice (no sleep after the third failure).
C1_TransportRetry ==
    /\ attempt \in 1..3
    /\ Len(outs) = attempt - 1
    /\ \A i \in DOMAIN outs : outs[i] = "F"
    /\ lastCall # NoCall =>
          /\ lastCall.attempts \in 1..3
          /\ Len(lastCall.outs) = lastCall.attempts
          /\ \A i \in 1..(lastCall.attempts - 1) : lastCall.outs[i] = "F"
          /\ lastCall.returned <=> lastCall.outs[lastCall.attempts] = "S"
          /\ lastCall.returned =>
                /\ lastCall.sleeps = lastCall.attempts - 1
                /\ ~(pc = "exit" /\ exit.cause = "transport")
          /\ lastCall.outs = <<"F", "F", "S">> => lastCall.returned /\ lastCall.sleeps = 2
          /\ ~lastCall.returned =>
                /\ lastCall.outs = <<"F", "F", "F">>
                /\ lastCall.attempts = 3
                /\ lastCall.sleeps = 2
                /\ PublishEnded
                /\ exit.cause = "transport"
                /\ exit.code = 99

C1_Witness ==
    /\ lastCall.outs = <<"F", "F", "S">>
    /\ lastCall.returned
    /\ lastCall.sleeps = 2
    /\ pc = "write"

\* C2: with no failed request and no other writer, the first publish run to
\* a key with no page ends with one page at version 1 holding the run's
\* body, and the second run ends with exactly one page, at version 2,
\* holding the second run's body.
C2_CreateThenUpdate ==
    (PublishEnded /\ faults = 0 /\ extWrites = 0 /\ exit.cause \notin {"config", "files"}) =>
        /\ exit.code = 0
        /\ Len(pages) = 1
        /\ pages[1].body = body
        /\ Len(okBodies) = 1 => pages[1].version = 1
        /\ Len(okBodies) = 2 => pages[1].version = 2

C2_Witness ==
    /\ PublishEnded
    /\ faults = 0
    /\ extWrites = 0
    /\ Len(okBodies) = 2
    /\ okBodies[1] # okBodies[2]
    /\ Len(pages) = 1
    /\ pages[1].version = 2
    /\ pages[1].body = okBodies[2]

\* C3: the store never holds more than one page at the key, and every
\* publish run that exits with status 0 leaves the page's version strictly
\* greater than it was when the run started.
C3_IdempotentPublish ==
    /\ Len(pages) <= 1
    /\ (PublishEnded /\ exit.code = 0) =>
          /\ Len(pages) >= 1
          /\ pages[1].version > verBefore

\* C4: no step removes or renames an attachment or leaves two attachments
\* with one file name on a page; an upload for a file name the page already
\* holds goes to the id of that attachment and leaves the count at 1; an
\* upload for a file name the page does not hold adds exactly one.
C4_AttachmentCreateOrReplace ==
    [][ /\ \A p \in DOMAIN pages :
              /\ Len(pages'[p].atts) >= Len(pages[p].atts)
              /\ \A i \in DOMAIN pages[p].atts :
                    pages'[p].atts[i].title = pages[p].atts[i].title
              /\ \A fn \in FileNames : AttCount(pages'[p].atts, fn) <= 1
        /\ (pc \in {"upHtml", "upPdf"} /\ AttCount(pages[pageId].atts, FileOf(pc)) >= 1) =>
              /\ existing # 0
              /\ pages[pageId].atts[existing].title = FileOf(pc)
              /\ AttCount(pages'[pageId].atts, FileOf(pc)) = 1
        /\ (pc \in {"upHtml", "upPdf"} /\ pc' = NextStage(pc)
               /\ AttCount(pages[pageId].atts, FileOf(pc)) = 0) =>
              AttCount(pages'[pageId].atts, FileOf(pc)) = 1
      ]_vars

\* C5: once the store has answered the page update with a version conflict,
\* the run has ended, having sent the update exactly once, with an error
\* that is not the one of transport exhaustion.
C5_ConflictNotRetried ==
    conflictSeen =>
        /\ PublishEnded
        /\ putSent = 1
        /\ exit.cause # "transport"
        /\ exit.code # PublishExitCode("transport")

\* C6: a run in which attaching the HTML file failed has still attempted the
\* PDF file when it ends, and a run in which attaching the PDF file failed
\* still has the HTML attachment on the page.
C6_AttachmentIndependence ==
    /\ (PublishEnded /\ exit.cause = "transport" /\ exit.at \in {"listHtml", "upHtml"}) =>
          \E i \in DOMAIN issued : issued[i] = "listPdf"
    /\ (PublishEnded /\ exit.cause = "transport" /\ exit.at \in {"listPdf", "upPdf"}) =>
          AttCount(pages[pageId].atts, HtmlName) >= 1

\* C7: a script exits 0 only on success, and two runs of the same stage
\* that end for different causes end with different exit codes.
C7_DistinctExitCodes ==
    /\ exit.stage # "none" => (exit.code = 0 <=> exit.cause = "ok")
    /\ (exit.stage # "none" /\ prevExit.stage = exit.stage /\ prevExit.cause # exit.cause) =>
          prevExit.code # exit.code

\* C8: a publish run exits 0 only if the lookup, the page write and both
\* attachment list and upload requests each returned a success; a stage
\* sends a request only after every earlier stage succeeded, so a run that
\* fails at a stage ends nonzero with no request of a later stage sent.
C8_NoSwallowedFailure ==
    /\ Len(issued) <= Len(Stages)
    /\ \A i \in DOMAIN issued :
          /\ issued[i] = Stages[i]
          /\ i < Len(issued) => issued[i] \in okStages
    /\ okStages \subseteq {issued[i] : i \in DOMAIN issued}
    /\ (PublishEnded /\ exit.code = 0) => okStages = StageSet
    /\ (PublishEnded /\ exit.cause \in {"config", "files"}) =>
          exit.code # 0 /\ issued = <<>>
    /\ (PublishEnded /\ exit.cause \in {"transport", "unexpected", "attachment"}) =>
          /\ exit.code # 0
          /\ issued # <<>>
          /\ issued[Len(issued)] = exit.at
          /\ exit.at \notin okStages

C8_Witness ==
    /\ PublishEnded
    /\ exit.cause = "transport"
    /\ exit.at = "write"
    /\ exit.code = 99
    /\ issued = <<"lookup", "write">>

\* The candidate keys of the root whose value is an array.
ListKeys(r) ==
    {i \in DOMAIN CandidateKeys : Get(r, CandidateKeys[i]).t = "list"}

\* C9: whenever extract_test_cases returns, its records come from the array
\* under the first candidate key, in the fixed order, whose value is an
\* array (an empty array included), one record per element and in order;
\* arrays under later keys add nothing; with no array the output is empty.
C9_FirstMatch ==
    (saved.ran /\ ~saved.raised) =>
        IF ListKeys(raw) = {}
        THEN saved.used = 0 /\ saved.testCases = <<>>
        ELSE LET m == CHOOSE i \in ListKeys(raw) : \A j \in ListKeys(raw) : i <= j
                 arr == raw.f[CandidateKeys[m]].items
             IN  /\ saved.used = m
                 /\ Len(saved.testCases) = Len(arr)
                 /\ \A i \in DOMAIN arr : saved.testCases[i].raw = arr[i]

C9_Witness ==
    /\ saved.ran
    /\ ~saved.raised
    /\ Cardinality(ListKeys(raw)) = 2
    /\ saved.testCases = <<>>
    /\ \E i \in ListKeys(raw) : Len(raw.f[CandidateKeys[i]].items) = 2

\* What the status rule gives for one upstream value: the name field of an
\* object when it has one (present, and not null, empty or zero), else its
\* status field when it has one, else the object's string form; "UNKNOWN"
\* for null; the string form of anything else.
Has(o, k) ==
    k \in DOMAIN o.f /\ o.f[k] \notin {Null, Str(""), Num(0)}

StatusRule(v) ==
    CASE v.t = "obj" ->
            IF Has(v, "name") THEN v.f["name"]
            ELSE IF Has(v, "status") THEN v.f["status"]
            ELSE [t |-> "str", repr |-> v]
      [] v.t = "null" -> Str("UNKNOWN")
      [] v.t = "str" -> v
      [] v.t = "int" -> Str(IntText[v.n])

\* C10: the saved execution status and the status of every saved test case
\* are what the status rule gives for the upstream value.
C10_StatusNormalized ==
    (saved.ran /\ ~saved.raised) =>
        /\ saved.status = StatusRule(Get(raw, "status"))
        /\ \A i \in DOMAIN saved.testCases :
              saved.testCases[i].status = StatusRule(Get(saved.testCases[i].raw, "status"))

C10_Witness ==
    /\ saved.ran
    /\ ~saved.raised
    /\ Get(raw, "status").t = "obj"
    /\ "name" \in DOMAIN raw.f["status"].f
    /\ raw.f["status"].f["name"] = Null
    /\ Get(raw.f["status"], "status") = Str("Pass")
    /\ saved.status = Str("Pass")
    /\ saved.testCases # <<>>

\* C11: normalization never raises: for every root and every mix of element
\* shapes (objects with missing fields, elements that are not objects) it
\* returns records; in every record name is a string, defects is a sequence
\* and comment is a string.
C11_NeverRaises ==
    saved.ran =>
        /\ ~saved.raised
        /\ \A i \in DOMAIN saved.testCases :
              /\ saved.testCases[i].name.t = "str"
              /\ saved.testCases[i].defects.t = "list"
              /\ saved.testCases[i].comment.t = "str"

\* The first alias, in order, whose value is present and not null.
FirstNonNullOf(item, aliases) ==
    LET I == {i \in DOMAIN aliases : Get(item, aliases[i]) # Null}
    IN  IF I = {} THEN Null
        ELSE Get(item, aliases[CHOOSE i \in I : \A j \in I : i <= j])

\* The first alias, in order, whose value is neither null, empty nor zero;
\* with no such alias, whatever the last alias holds.
FirstTruthyOf(item, aliases) ==
    LET I == {i \in DOMAIN aliases :
                 Get(item, aliases[i]) \notin {Null, Str(""), Num(0), List(<<>>)}}
    IN  IF I = {} THEN Get(item, aliases[Len(aliases)])
        ELSE Get(item, aliases[CHOOSE i \in I : \A j \in I : i <= j])

\* C19 as stated: key, name, executedBy and executedOn are the first non-null
\* value among their aliases; an empty or zero value in an earlier alias is
\* not skipped in favour of a later alias.
C19_FirstNonNullAlias ==
    (saved.ran /\ ~saved.raised) =>
        \A i \in DOMAIN saved.testCases :
           LET tc == saved.testCases[i]
           IN  /\ tc.key = FirstNonNullOf(tc.raw, KeyAliases)
               /\ tc.name = IF FirstNonNullOf(tc.raw, NameAliases) = Null THEN Str("")
                             ELSE FirstNonNullOf(tc.raw, NameAliases)
               /\ tc.executedBy = FirstNonNullOf(tc.raw, ByAliases)
               /\ tc.executedOn = FirstNonNullOf(tc.raw, OnAliases)

\* C19 amended: key, name, executedBy and executedOn are the first value
\* among their aliases that is neither null, empty nor zero (an empty or zero
\* earlier alias is skipped); with no such value key, executedBy and
\* executedOn are whatever the last alias holds and name is the empty string.
C19_FirstTruthyAlias ==
    (saved.ran /\ ~saved.raised) =>
        \A i \in DOMAIN saved.testCases :
           LET tc == saved.testCases[i]
           IN  /\ tc.key = FirstTruthyOf(tc.raw, KeyAliases)
               /\ tc.name = IF FirstTruthyOf(tc.raw, NameAliases) \in {Null, Str("")}
                             THEN Str("")
                             ELSE FirstTruthyOf(tc.raw, NameAliases)
               /\ tc.executedBy = FirstTruthyOf(tc.raw, ByAliases)
               /\ tc.executedOn = FirstTruthyOf(tc.raw, OnAliases)

C19_Witness ==
    /\ saved.ran
    /\ ~saved.raised
    /\ Len(saved.testCases) = 1
    /\ Get(saved.testCases[1].raw, "testCaseId") = Num(0)
    /\ Get(saved.testCases[1].raw, "id") = Str("id")
    /\ saved.testCases[1].key = Str("id")

\* The data file holds a record set with no test case.
ZeroCases(file) ==
    /\ file.t = "obj"
    /\ \/ "issues" \notin DOMAIN file.f
       \/ file.f["issues"] \in {Null, List(<<>>)}

\* C12 as stated: given a record set with zero test cases the generator
\* writes an empty HTML table and an empty paginated document and ends
\* without error or abort.
C12_EmptyInputRenders ==
    (gen.ran /\ ZeroCases(gen.input)) =>
        /\ gen.exit.code = 0
        /\ gen.html.kind = "html"
        /\ gen.html.rows = <<>>
        /\ gen.pdf.kind = "pdf"
        /\ gen.pdf.rows = <<>>

\* C12 amended: given a record set with zero test cases the generator ends
\* with status 3 before either renderer runs; that run writes neither an
\* HTML file nor a paginated document.
C12_EmptyInputAborts ==
    (gen.ran /\ ZeroCases(gen.input)) =>
        /\ gen.exit.code = 3
        /\ gen.exit.cause = "empty"
        /\ gen.html.kind = "none"
        /\ gen.pdf.kind = "none"

C12_Witness ==
    /\ gen.ran
    /\ gen.input = Obj([k \in {"issues"} |-> List(<<>>)])
    /\ gen.exit.code = 3
    /\ gen.html.kind = "none"

\* C13: every timestamp in the output of one render is the file name stamp
\* (one injected value, no separate clock read), and two HTML renders of the
\* same record set with the same stamp are identical.
C13_RenderDeterminism ==
    /\ gen.html.kind = "html" => gen.html.generatedOn = gen.stamp
    /\ (/\ gen.html.kind = "html"
        /\ prevGen.html.kind = "html"
        /\ gen.input = prevGen.input
        /\ gen.stamp = prevGen.stamp) => gen.html = prevGen.html

RowMax(q) ==
    CHOOSE m \in {q[i] : i \in DOMAIN q} : \A i \in DOMAIN q : m >= q[i]

\* C14: the height of every row is the largest wrapped-line count of its
\* cells, each count at least 1, times the line height; every rectangle of
\* the row has that height and starts at the y of the row; the cursor
\* advances by that height.
C14_UniformRowHeight ==
    rowsDrawn > 0 =>
        /\ \A i \in DOMAIN row.counts : row.counts[i] >= 1
        /\ row.height = RowMax(row.wrapped) * LineHeight
        /\ \A i \in DOMAIN row.rects :
              row.rects[i].h = row.height /\ row.rects[i].y = row.yStart
        /\ row.yEnd = row.yStart + row.height

\* C15: when the generator ends with status 0 the four files exist and each
\* latest copy equals the timestamped file; no failed write ends in status 0.
C15_ArtifactsAfterSuccess ==
    (gen.ran /\ gen.exit.code = 0) =>
        /\ gen.html.kind = "html"
        /\ gen.pdf.kind = "pdf"
        /\ latest.html = gen.html
        /\ latest.pdf = gen.pdf
        /\ gen.failed = "none"

\* C16: a fetch whose first attempt fails with a connection error or a
\* status outside 2xx is attempted again; the fetch stage fails only after 3
\* attempts with a sleep between failed attempts.
C16_FetchRetries ==
    fetch.why \in {"exception", "status"} =>
        /\ fetch.attempts = 3
        /\ fetch.sleeps = 2

C18_FetchToRender ==
    (gen.ran /\ gen.afterFetch) =>
        /\ gen.input = disk[outPath]
        /\ Len(gen.html.rows) = Len(saved.testCases)
        /\ \A i \in DOMAIN saved.testCases :
              gen.html.rows[i][1] = saved.testCases[i].key

\* C20: the requests of a run go out in the order lookup, page write, HTML
\* attachment (list, upload), PDF attachment (list, upload), each stage
\* starting only after the one before it succeeded; the page write is of
\* one kind per run: a create when the lookup returned no result, else an
\* update of the first result.
C20_PublishOrdering ==
    /\ \E n \in 0..6 :
          issued = SubSeq(<<"lookup", "write", "listHtml", "upHtml", "listPdf", "upPdf">>, 1, n)
    /\ \A i \in 1..(Len(issued) - 1) : issued[i] \in okStages
    /\ Cardinality(writeKinds) <= 1
    /\ (\E i \in DOMAIN issued : issued[i] = "write") <=> writeKinds # {}
    /\ writeKinds = {"create"} => lookupResults = 0 /\ putSent = 0
    /\ writeKinds = {"update"} => lookupResults > 0 /\ lastPut.id = 1

C20_Witness ==
    /\ PublishEnded
    /\ exit.code = 0
    /\ writeKinds = {"update"}
    /\ lookupResults = 2
    /\ issued = <<"lookup", "write", "listHtml", "upHtml", "listPdf", "upPdf">>

\* One HTTP attempt of the publish script, at whichever stage it is in.
PublishStep ==
    FindPageStep \/ CreateOrUpdateStep \/ ListAttachmentsStep \/ UploadStep

\* The HTTP attempts a run at stage s, in attempt a of its call, can still
\* make: the rest of this call's three and three for each stage after it.
StageIndex(s) ==
    CHOOSE i \in DOMAIN Stages : Stages[i] = s

AttemptsLeft(s, a) ==
    IF s \in StageSet THEN 3 * (6 - StageIndex(s)) + (4 - a) ELSE 0

\* C21: every publish run ends after at most 18 HTTP attempts: at every stage
\* the next attempt can be made whatever the store answers, each attempt
\* uses up one of the attempts the run has left (3 per call of safe_request,
\* 6 calls, one per stage and none twice), and the run never goes back to a
\* stage, so a request is sent again only inside the retry loop.
C21_RunTerminates ==
    /\ [](/\ attempt \in 1..3
          /\ http.calls = Len(issued)
          /\ \A i, j \in DOMAIN issued : issued[i] = issued[j] => i = j
          /\ http.calls <= 6
          /\ http.attempts <= 3 * http.calls
          /\ http.attempts + AttemptsLeft(pc, attempt) <= 18
          /\ pc \in StageSet => ENABLED PublishStep)
    /\ [][PublishStep =>
            /\ http'.attempts = http.attempts + 1
            /\ AttemptsLeft(pc', attempt') < AttemptsLeft(pc, attempt)
            /\ pc' \in {pc, "exit"} \/ StageIndex(pc') = StageIndex(pc) + 1]_vars

\* A run that ended with status 0 after one of its six requests needed all
\* three attempts.
C21_Witness ==
    /\ PublishEnded
    /\ exit.code = 0
    /\ http.calls = 6
    /\ http.attempts = 8

\* C22: a call of safe_request that returned to its caller returned a
\* response with status 200 or 201; a call whose last attempt came back with
\* anything else (another 2xx code included) or with an exception did not
\* return: it used all three attempts and the process ended with status 99;
\* so no run ends with the attachment-failure status 6.
C22_SafeRequestPostcondition ==
    /\ lastCall.returned => lastCall.status = "200/201"
    /\ (lastCall # NoCall /\ ~lastCall.returned) =>
          /\ lastCall.status \in {"204", "500", Conflict, EXC}
          /\ lastCall.attempts = 3
          /\ PublishEnded
          /\ exit.cause = "transport"
          /\ exit.code = 99
    /\ (PublishEnded /\ exit.cause = "transport") => lastCall # NoCall /\ ~lastCall.returned
    /\ exit.stage = "publish" => exit.cause # "attachment" /\ exit.code # 6

\* An upload whose three attempts were all answered 204: the call did not
\* return and the run ended with status 99 at the upload, not with status 6.
C22_Witness ==
    /\ PublishEnded
    /\ exit.at = "upPdf"
    /\ exit.code = 99
    /\ ~lastCall.returned
    /\ lastCall.attempts = 3
    /\ lastCall.status = "204"

====
